---- MODULE Spec2Model ----
(***************************************************************************)
(* Model of ot/bregman.py: the Sinkhorn-Knopp family of solvers.           *)
(*                                                                         *)
(* Numbers.  A float is a pair <<n, d>>: the rational n/d in lowest terms  *)
(* when d > 0, +inf = <<1,0>>, -inf = <<-1,0>> and NaN = <<0,0>>.  The      *)
(* arithmetic follows IEEE-754 on the special values (x/0 = inf,           *)
(* 0/0 = inf-inf = 0*inf = NaN, NaN compares false) and overflows to inf   *)
(* above MaxFloat; the mantissa is exact.  A result whose numerator or     *)
(* denominator does not fit the model's integers is OVF; a step that would *)
(* produce one is disabled, so every checked run is computed exactly.      *)
(*                                                                         *)
(* Kernels.  exp and log are not computed: the cost matrix M and reg enter *)
(* through the Gibbs kernel K0 = exp(-M/reg) and a log-potential alpha is  *)
(* held as exp(alpha/reg).  Under that change of variable                  *)
(* alpha + reg*log(u) is the product exp(alpha/reg)*u and                  *)
(* exp(-(M - alpha - beta)/reg) is K0*exp(alpha/reg)*exp(beta/reg).        *)
(***************************************************************************)
EXTENDS Integers, Sequences, FiniteSets, TLC

VARIABLES
    solver,      \* the function being run
    pc,          \* "loop": at the head of the while loop, "ret": after it, "done"
    args,        \* the call's arguments
    u, v,        \* scaling vectors
    uprev, vprev,
    alpha, beta, \* log-potentials, held as exp(alpha/reg)
    K,           \* current kernel
    cpt, err, loop,
    numItermax,  \* the local numItermax (epsilon scaling reassigns it)
    ret, log,    \* the returned value and the returned log
    warned,      \* 'Warning: numerical errrors' was printed
    raised,      \* an exception left the function
    nanAt,       \* history: index of the last iteration whose update left a NaN in u or v
    nupd,        \* history: number of loop bodies executed (updates, outer steps)
    nabs,        \* history: number of absorptions
    absorbed,    \* history: the last executed iteration began with an absorption
    good,        \* history: the plan represented at the end of the previous iteration
    measured,    \* history: the plan the last error measurement was taken on
    first,       \* history: what the first call of a pair of calls returned
    inner        \* history: the keyword arguments of the inner solver call

vars == <<solver, pc, args, u, v, uprev, vprev, alpha, beta, K, cpt, err, loop,
          numItermax, ret, log, warned, raised, nanAt, nupd, nabs, absorbed,
          good, measured, first, inner>>

None == <<>>

(***************************************************************************)
(* Bounds of the model                                                     *)
(***************************************************************************)
MaxExp == 8            \* floats overflow to inf above 2^MaxExp
MaxIter == 12          \* largest numItermax tried with the plain solver
MaxFloat == 2^MaxExp
Lim == 2^24            \* largest numerator/denominator the model represents

(***************************************************************************)
(* Float arithmetic                                                        *)
(***************************************************************************)
Abs(x) == IF x < 0 THEN -x ELSE x
Sgn(x) == IF x > 0 THEN 1 ELSE IF x < 0 THEN -1 ELSE 0

RECURSIVE GCD(_, _)
GCD(x, y) == IF y = 0 THEN x ELSE GCD(y, x % y)

NaN == <<0, 0>>
Inf == <<1, 0>>
Zero == <<0, 1>>
One == <<1, 1>>
OVF == <<0, -1>>

IsOVF(x) == x[2] < 0
IsNaN(x) == x = NaN
IsFinite(x) == x[2] > 0

Fits(p, q) == p = 0 \/ q = 0 \/ Abs(p) <= Lim \div Abs(q)

\* n/d in lowest terms, d > 0; d = 0 gives the infinity of n's sign, or NaN
Norm(n, d) ==
    IF d = 0 THEN <<Sgn(n), 0>>
    ELSE LET g == GCD(Abs(n), Abs(d))
         IN  <<Sgn(d) * (n \div g), Abs(d) \div g>>

\* overflow of a float result
Fl(x) ==
    IF x[2] > 0 /\ x[1] # 0 /\ (Abs(x[1]) - 1) \div x[2] >= MaxFloat
    THEN <<Sgn(x[1]), 0>> ELSE x

\* exact product (no overflow to inf): used in the log domain
MulX(x, y) ==
    IF IsOVF(x) \/ IsOVF(y) THEN OVF
    ELSE IF x[2] = 0 \/ y[2] = 0 THEN <<Sgn(x[1]) * Sgn(y[1]), 0>>
    ELSE LET g1 == GCD(Abs(x[1]), y[2])
             g2 == GCD(Abs(y[1]), x[2])
             n1 == x[1] \div g1
             n2 == y[1] \div g2
             d1 == x[2] \div g2
             d2 == y[2] \div g1
         IN  IF Fits(n1, n2) /\ Fits(d1, d2) THEN <<n1 * n2, d1 * d2>> ELSE OVF

Mul(x, y) == Fl(MulX(x, y))

Inv(x) ==
    IF IsOVF(x) THEN OVF
    ELSE IF x[1] < 0 THEN Fl(<<-x[2], -x[1]>>) ELSE Fl(<<x[2], x[1]>>)

Div(x, y) == Mul(x, Inv(y))

Neg(x) == IF IsOVF(x) THEN OVF ELSE <<-x[1], x[2]>>

Add(x, y) ==
    IF IsOVF(x) \/ IsOVF(y) THEN OVF
    ELSE IF x[2] = 0 /\ y[2] = 0 THEN (IF x = y THEN x ELSE NaN)
    ELSE IF x[2] = 0 THEN x
    ELSE IF y[2] = 0 THEN y
    ELSE LET g == GCD(x[2], y[2])
             e1 == y[2] \div g
             e2 == x[2] \div g
         IN  IF Fits(x[1], e1) /\ Fits(y[1], e2) /\ Fits(e2, y[2])
                /\ Abs(x[1] * e1 + y[1] * e2) <= Lim
             THEN Fl(Norm(x[1] * e1 + y[1] * e2, e2 * y[2]))
             ELSE OVF

Sub(x, y) == Add(x, Neg(y))

\* x > y and x <= y as IEEE compares them: false when either side is NaN.
\* y is a threshold (stopThr, tau) with small numerator and denominator.
Gt(x, y) ==
    /\ ~IsNaN(x) /\ ~IsNaN(y)
    /\ IF x[2] = 0 \/ y[2] = 0
       THEN (IF x[2] = 0 /\ y[2] = 0 THEN x[1] > y[1]
             ELSE IF x[2] = 0 THEN x[1] > 0 ELSE y[1] < 0)
       ELSE x[1] * y[2] > y[1] * x[2]

Le(x, y) == ~IsNaN(x) /\ ~IsNaN(y) /\ ~Gt(x, y)

(***************************************************************************)
(* Vectors and matrices (dimension 2)                                      *)
(***************************************************************************)
Idx == {1, 2}
Vec(f(_)) == <<f(1), f(2)>>
Half == <<1, 2>>
ones_over_n == <<Half, Half>>            \* np.ones(n)/n
zeros == <<Zero, Zero>>                  \* np.zeros(n)

HasNaN(x) == \E i \in Idx : IsNaN(x[i])                \* np.any(np.isnan(x))
HasZero(x) == \E i \in Idx : x[i] = Zero               \* np.any(x == 0)
HasNaNM(P) == \E i \in Idx : HasNaN(P[i])
VecOVF(x) == \E i \in Idx : IsOVF(x[i])
MatOVF(P) == \E i \in Idx : VecOVF(P[i])

\* np.dot(A, B) for 2x2 matrices
MatMul(A, B) ==
    LET e(i, j) == Add(Mul(A[i][1], B[1][j]), Mul(A[i][2], B[2][j]))
    IN  <<<<e(1, 1), e(1, 2)>>, <<e(2, 1), e(2, 2)>>>>
\* np.dot(A, x)
Dot(A, x) ==
    LET e(i) == Add(Mul(A[i][1], x[1]), Mul(A[i][2], x[2])) IN Vec(e)
\* np.dot(A.T, x)
DotT(A, x) ==
    LET e(j) == Add(Mul(A[1][j], x[1]), Mul(A[2][j], x[2])) IN Vec(e)
\* np.diag(x)
Diag(x) == <<<<x[1], Zero>>, <<Zero, x[2]>>>>
\* np.divide(x, y), elementwise
VDiv(x, y) == LET e(i) == Div(x[i], y[i]) IN Vec(e)
ColSums(P) == LET e(j) == Add(P[1][j], P[2][j]) IN Vec(e)     \* np.sum(P, axis=0)
RowSums(P) == LET e(i) == Add(P[i][1], P[i][2]) IN Vec(e)     \* np.sum(P, axis=1)
\* np.linalg.norm(x - y)**2
SqDist(x, y) ==
    LET d(i) == Sub(x[i], y[i])
    IN  Add(Mul(d(1), d(1)), Mul(d(2), d(2)))

(***************************************************************************)
(* sinkhorn                                                                *)
(***************************************************************************)
\* Kp = np.dot(np.diag(1/a), K)
Kp(a, KK) == MatMul(Diag(VDiv(<<One, One>>, a)), KK)

\* np.dot(np.diag(u), np.dot(K, np.diag(v)))
Plan(uu, KK, vv) == MatMul(Diag(uu), MatMul(KK, Diag(vv)))

\* the while condition with `or` for `and`
SinkhornCond_or == Gt(err, args.stopThr) \/ cpt < numItermax

\* the while condition
SinkhornCond == Gt(err, args.stopThr) /\ cpt < numItermax

\* the machine-precision test at the top of the loop body
SinkhornFailure == HasZero(DotT(K, u)) \/ HasNaN(u) \/ HasNaN(v)

SinkhornNewV == VDiv(args.b, DotT(K, u))
SinkhornNewU(nv) == VDiv(<<One, One>>, Dot(Kp(args.a, K), nv))

\* the error is measured on these iterations
SinkhornMeasures(c) == c % 10 = 0


(***************************************************************************)
(* Inputs tried                                                            *)
(***************************************************************************)
Quarter == <<1, 4>>
ThreeQuarters == <<3, 4>>
\* marginals: nonnegative, summing to 1
Marginals == {<<Half, Half>>, <<Quarter, ThreeQuarters>>, <<ThreeQuarters, Quarter>>,
              <<One, Zero>>}
\* kernels exp(-M/reg): 1 where M = 0, 1/2 where M = reg*log(2), 0 where exp underflows
Mat(w, x, y, z) == <<<<w, x>>, <<y, z>>>>
PlainKernels == {Mat(w, x, y, z) : w \in {Zero, One}, x \in {Zero, One, Half},
                                   y \in {Zero, One}, z \in {Zero, One}}
StopThrs == {Zero, <<1, 16>>, One}
NumItermaxs == 0 .. MaxIter

\* the history variables of a fresh call
FreshHistory ==
    /\ warned = FALSE /\ raised = FALSE /\ nanAt = -1 /\ nupd = 0 /\ nabs = 0
    /\ absorbed = FALSE /\ good = None /\ measured = None /\ inner = None

\* sinkhorn(a, b, M, reg, numItermax, stopThr, log=True) up to the while loop
InitSinkhorn ==
    /\ solver = "sinkhorn"
    /\ args \in [a : Marginals, b : Marginals, K0 : PlainKernels,
                 numItermax : NumItermaxs, stopThr : StopThrs]
    /\ numItermax = args.numItermax
    /\ u = ones_over_n /\ v = ones_over_n
    /\ uprev = zeros /\ vprev = zeros
    /\ K = args.K0
    /\ alpha = None /\ beta = None
    /\ cpt = 0 /\ err = One /\ loop = None
    /\ log = [err |-> <<>>]
    /\ ret = None /\ pc = "loop" /\ first = None
    /\ FreshHistory

\* the loop body when the machine-precision test fires: warn, roll back, break
sinkhorn_abort ==
    /\ solver = "sinkhorn" /\ pc = "loop"
    /\ SinkhornCond
    /\ ~VecOVF(DotT(K, u))
    /\ SinkhornFailure
    /\ warned' = TRUE
    /\ u' = IF cpt # 0 THEN uprev ELSE u
    /\ v' = IF cpt # 0 THEN vprev ELSE v
    /\ pc' = "ret"
    /\ UNCHANGED <<solver, args, uprev, vprev, alpha, beta, K, cpt, err, loop, numItermax,
                   ret, log, raised, nanAt, nupd, nabs, absorbed, good, measured, first, inner>>

\* one full iteration of the loop body
sinkhorn_iter ==
    /\ solver = "sinkhorn" /\ pc = "loop"
    /\ SinkhornCond
    /\ ~VecOVF(DotT(K, u))
    /\ ~SinkhornFailure
    /\ \E nv \in {SinkhornNewV} :
       \E nu \in {SinkhornNewU(nv)} :
       \E transp \in {IF SinkhornMeasures(cpt) THEN Plan(nu, K, nv) ELSE measured} :
       \E nerr \in {IF SinkhornMeasures(cpt) THEN SqDist(ColSums(transp), args.b) ELSE err} :
           /\ ~VecOVF(nv) /\ ~VecOVF(nu) /\ ~IsOVF(nerr)
           /\ uprev' = u /\ vprev' = v
           /\ v' = nv /\ u' = nu
           /\ err' = nerr
           /\ log' = IF SinkhornMeasures(cpt)
                     THEN [log EXCEPT !.err = Append(@, nerr)] ELSE log
           /\ measured' = transp
           /\ nanAt' = IF HasNaN(nu) \/ HasNaN(nv) THEN cpt ELSE nanAt
    /\ cpt' = cpt + 1
    /\ nupd' = nupd + 1
    /\ UNCHANGED <<solver, pc, args, alpha, beta, K, loop, numItermax, ret, warned, raised,
                   nabs, absorbed, good, first, inner>>

\* the loop is left (condition false, or break) and the plan is returned
sinkhorn_return ==
    /\ solver = "sinkhorn"
    /\ pc = "ret" \/ (pc = "loop" /\ ~SinkhornCond)
    /\ ~MatOVF(Plan(u, K, v))
    /\ ret' = Plan(u, K, v)
    /\ pc' = "done"
    /\ UNCHANGED <<solver, args, u, v, uprev, vprev, alpha, beta, K, cpt, err, loop,
                   numItermax, log, warned, raised, nanAt, nupd, nabs, absorbed, good,
                   measured, first, inner>>

NextSinkhorn == sinkhorn_abort \/ sinkhorn_iter \/ sinkhorn_return

SpecSinkhorn == InitSinkhorn /\ [][NextSinkhorn]_vars


(***************************************************************************)
(* sinkhorn_stabilized                                                     *)
(***************************************************************************)
MaxStabIter == 2       \* largest numItermax tried with the stabilized solver

\* kernels of finite costs: every entry positive
StabKernels == {Mat(One, x, Half, z) : x \in {One, Half}, z \in {One, Half, Quarter}}
StabTargets == {<<Half, Half>>, <<Quarter, ThreeQuarters>>, <<One, Zero>>}
Taus == {One, <<4, 1>>}
StabStopThrs == {Zero, <<1, 64>>, <<1, 16>>}
PrintPeriods == {1, 2}
zero_potential == <<One, One>>           \* np.zeros(n), as exp(0/reg)

\* get_K(alpha, beta) = exp(-(M - alpha_i - beta_j)/reg)
get_K(al, be) ==
    LET e(i, j) == Fl(MulX(MulX(args.K0[i][j], al[i]), be[j]))
    IN  Mat(e(1, 1), e(1, 2), e(2, 1), e(2, 2))

\* get_Gamma(alpha, beta, u, v) = exp(-(M - alpha_i - beta_j)/reg + log(u_i) + log(v_j))
get_Gamma(al, be, uu, vv) ==
    LET e(i, j) == Fl(MulX(MulX(MulX(MulX(args.K0[i][j], al[i]), be[j]), uu[i]), vv[j]))
    IN  Mat(e(1, 1), e(1, 2), e(2, 1), e(2, 2))

\* alpha + reg*np.log(u), elementwise
AddRegLog(al, uu) == LET e(i) == MulX(al[i], uu[i]) IN Vec(e)

\* np.abs(x).max() > t; the max of a vector holding a NaN is NaN
MaxAbsGt(x, t) == ~HasNaN(x) /\ \E i \in Idx : Gt(<<Abs(x[i][1]), x[i][2]>>, t)

\* the absorption test made on u alone
StabAbsorbs_u(uu, vv, tau) == MaxAbsGt(uu, tau)

\* the absorption test at the top of the loop body
StabAbsorbs(uu, vv, tau) == MaxAbsGt(uu, tau) \/ MaxAbsGt(vv, tau)

\* the alternating update: v = b/np.dot(K.T, u), then u = a/np.dot(K, v)
StabNewV(b, KK, uu) == VDiv(b, DotT(KK, uu))
StabNewU(a, KK, vv) == VDiv(a, Dot(KK, vv))

\* the error is measured on these iterations
StabMeasures(c, print_period) == c % print_period = 0

\* loop after the two tests that clear it
StabNewLoop(e, stopThr, c, nmax) == ~Le(e, stopThr) /\ ~(c >= nmax)

\* the machine-precision test at the bottom of the loop body
StabFailure(KK, uu, vv) == HasZero(DotT(KK, uu)) \/ HasNaN(uu) \/ HasNaN(vv)

\* sinkhorn_stabilized(a, b, M, reg, numItermax, tau, stopThr, warmstart,
\* print_period, log=True) up to the while loop
StabStart(ws) ==
    /\ alpha = ws[1] /\ beta = ws[2]
    /\ u = ones_over_n /\ v = ones_over_n
    /\ uprev = zeros /\ vprev = zeros
    /\ K = get_K(ws[1], ws[2])
    /\ cpt = 0 /\ err = One /\ loop = TRUE
    /\ log = [err |-> <<>>]
    /\ ret = None /\ pc = "loop"
    /\ FreshHistory

InitStabilized ==
    /\ solver = "sinkhorn_stabilized"
    /\ args \in [a : Marginals, b : StabTargets, K0 : StabKernels,
                 numItermax : 0 .. MaxStabIter, stopThr : StabStopThrs,
                 tau : Taus, print_period : PrintPeriods, warmstart : {None}]
    /\ numItermax = args.numItermax
    /\ StabStart(<<zero_potential, zero_potential>>)
    /\ first = None

\* one execution of the loop body: the absorption when the test asks for it, the
\* alternating update, the error measurement, the two stopping tests and the
\* machine-precision test, which either fails (warn, roll back, break) or not
StabLoopBody(failure) ==
    \E absorbs \in {StabAbsorbs(u, v, args.tau)} :
    \E al \in {IF absorbs THEN AddRegLog(alpha, u) ELSE alpha},
       be \in {IF absorbs THEN AddRegLog(beta, v) ELSE beta},
       u0 \in {IF absorbs THEN ones_over_n ELSE u},
       v0 \in {IF absorbs THEN ones_over_n ELSE v},
       measures \in {StabMeasures(cpt, args.print_period)},
       before \in {get_Gamma(alpha, beta, u, v)} :
    \E KK \in {IF absorbs THEN get_K(al, be) ELSE K} :
    \E nv \in {StabNewV(args.b, KK, u0)} :
    \E nu \in {StabNewU(args.a, KK, nv)} :
    \E transp \in {IF measures THEN get_Gamma(al, be, nu, nv) ELSE measured} :
    \E nerr \in {IF measures THEN SqDist(ColSums(transp), args.b) ELSE err} :
    \E nloop \in {StabNewLoop(nerr, args.stopThr, cpt, numItermax)} :
        /\ ~VecOVF(al) /\ ~VecOVF(be) /\ ~MatOVF(KK) /\ ~MatOVF(before)
        /\ ~VecOVF(nv) /\ ~VecOVF(nu) /\ ~IsOVF(nerr) /\ ~VecOVF(DotT(KK, nu))
        /\ StabFailure(KK, nu, nv) = failure
        /\ alpha' = al /\ beta' = be /\ K' = KK
        /\ uprev' = u0 /\ vprev' = v0
        /\ err' = nerr
        /\ log' = IF measures THEN [log EXCEPT !.err = Append(@, nerr)] ELSE log
        /\ measured' = transp
        /\ loop' = nloop
        /\ IF failure
           THEN /\ warned' = TRUE
                /\ u' = IF cpt # 0 THEN u0 ELSE nu
                /\ v' = IF cpt # 0 THEN v0 ELSE nv
                /\ pc' = "ret"
                /\ cpt' = cpt
           ELSE /\ warned' = warned
                /\ u' = nu /\ v' = nv
                /\ pc' = IF nloop THEN "loop" ELSE "ret"
                /\ cpt' = cpt + 1
        /\ nanAt' = IF HasNaN(nu) \/ HasNaN(nv) THEN cpt ELSE nanAt
        /\ nupd' = nupd + 1
        /\ nabs' = IF absorbs THEN nabs + 1 ELSE nabs
        /\ absorbed' = absorbs
        /\ good' = before

\* one iteration that passes the machine-precision test
stabilized_iter ==
    /\ solver = "sinkhorn_stabilized" /\ pc = "loop"
    /\ StabLoopBody(FALSE)
    /\ UNCHANGED <<solver, args, numItermax, ret, raised, first, inner>>

\* one iteration that fails it: warn, roll back, break
stabilized_abort ==
    /\ solver = "sinkhorn_stabilized" /\ pc = "loop"
    /\ StabLoopBody(TRUE)
    /\ UNCHANGED <<solver, args, numItermax, ret, raised, first, inner>>

\* the log without the residual u, v folded into the potentials
StabLog_unfolded ==
    [err |-> log.err, alpha |-> alpha, beta |-> beta, warmstart |-> <<alpha, beta>>]

\* log['alpha'], log['beta'], log['warmstart'] and the returned plan
StabLog ==
    [err |-> log.err,
     alpha |-> AddRegLog(alpha, u),
     beta |-> AddRegLog(beta, v),
     warmstart |-> <<AddRegLog(alpha, u), AddRegLog(beta, v)>>]

stabilized_return ==
    /\ solver = "sinkhorn_stabilized" /\ pc = "ret"
    /\ ~MatOVF(get_Gamma(alpha, beta, u, v))
    /\ ~VecOVF(AddRegLog(alpha, u)) /\ ~VecOVF(AddRegLog(beta, v))
    /\ log' = StabLog
    /\ ret' = get_Gamma(alpha, beta, u, v)
    /\ pc' = "done"
    /\ UNCHANGED <<solver, args, u, v, uprev, vprev, alpha, beta, K, cpt, err, loop,
                   numItermax, warned, raised, nanAt, nupd, nabs, absorbed, good,
                   measured, first, inner>>

\* a cold run stopped by convergence; the caller runs the solver again on the same
\* a, b, M, reg, seeded with the returned log['warmstart']
StoppedByConvergence == Le(err, args.stopThr) /\ ~warned

stabilized_warm_rerun ==
    /\ solver = "sinkhorn_stabilized" /\ pc = "done" /\ first = None
    /\ StoppedByConvergence
    /\ first' = <<[ret |-> ret, log |-> log, nupd |-> nupd, err |-> err]>>
    /\ args' = [args EXCEPT !.warmstart = log.warmstart]
    /\ ~MatOVF(get_K(log.warmstart[1], log.warmstart[2]))
    /\ alpha' = log.warmstart[1] /\ beta' = log.warmstart[2]
    /\ u' = ones_over_n /\ v' = ones_over_n
    /\ uprev' = zeros /\ vprev' = zeros
    /\ K' = get_K(log.warmstart[1], log.warmstart[2])
    /\ cpt' = 0 /\ err' = One /\ loop' = TRUE
    /\ log' = [err |-> <<>>]
    /\ ret' = None /\ pc' = "loop"
    /\ warned' = FALSE /\ nanAt' = -1 /\ nupd' = 0 /\ nabs' = 0
    /\ absorbed' = FALSE /\ good' = None /\ measured' = None
    /\ UNCHANGED <<solver, numItermax, raised, inner>>

NextStabilized ==
    stabilized_iter \/ stabilized_abort \/ stabilized_return \/ stabilized_warm_rerun

SpecStabilized == InitStabilized /\ [][NextStabilized]_vars


(***************************************************************************)
(* sinkhorn_epsilon_scaling                                                *)
(*                                                                         *)
(* The call of sinkhorn_stabilized in the loop body passes the keyword     *)
(* tau twice (tau=1e3 and tau=tau).  Python rejects a call that repeats a  *)
(* keyword when it compiles it ("SyntaxError: keyword argument repeated:   *)
(* tau"), so no statement of the function is ever executed: a call of      *)
(* sinkhorn_epsilon_scaling ends with that exception, before the first     *)
(* outer step.  The other functions are modelled as written.               *)
(***************************************************************************)
numItermin == 35
MaxEpsExtra == 2       \* numItermax is tried up to numItermin + MaxEpsExtra

EpsNumItermaxs == {0, 1} \cup (numItermin - 1 .. numItermin + MaxEpsExtra)
EpsPrintPeriods == {1, 2, 10}
EpsWarmstarts == {None, <<zero_potential, <<Half, One>>>>}

EpsNumInnerItermaxs == {1, 100}
EpsTaus == {<<4, 1>>, <<1000, 1>>}

\* the keyword arguments of the call of sinkhorn_stabilized in the loop body,
\* in the order written
InnerCallKeywords ==
    << <<"numItermax", args.numInnerItermax>>, <<"tau", <<1000, 1>>>>,
       <<"stopThr", <<1, 1000000000>>>>, <<"warmstart", <<alpha, beta>>>>,
       <<"verbose", FALSE>>, <<"print_period", 20>>, <<"tau", args.tau>>,
       <<"log", TRUE>> >>

\* a keyword appears twice in the call
RepeatedKeyword(kws) ==
    \E i, j \in 1 .. Len(kws) : i < j /\ kws[i][1] = kws[j][1]

\* for each keyword of the callee that the claims are about, the values the
\* call gives it
Bindings(kws) ==
    [k \in {"numItermax", "tau", "stopThr"} |->
        {kws[i][2] : i \in {n \in 1 .. Len(kws) : kws[n][1] = k}}]

\* a call sinkhorn_epsilon_scaling(a, b, M, reg, numItermax, numInnerItermax, tau,
\* stopThr, warmstart, print_period, log=True)
InitEpsilonScaling ==
    /\ solver = "sinkhorn_epsilon_scaling"
    /\ args \in [a : Marginals, b : StabTargets, K0 : {Mat(One, Half, Half, One)},
                 numItermax : EpsNumItermaxs, stopThr : StopThrs,
                 print_period : EpsPrintPeriods, warmstart : EpsWarmstarts,
                 numInnerItermax : EpsNumInnerItermaxs, tau : EpsTaus]
    /\ numItermax = args.numItermax
    /\ u = None /\ v = None /\ uprev = None /\ vprev = None
    /\ alpha = None /\ beta = None /\ K = None
    /\ cpt = 0 /\ err = None /\ loop = None
    /\ log = None /\ ret = None /\ pc = "call" /\ first = None
    /\ FreshHistory

\* the call: the function's code holds the call with the repeated keyword
epsilon_scaling_call ==
    /\ solver = "sinkhorn_epsilon_scaling" /\ pc = "call"
    /\ RepeatedKeyword(InnerCallKeywords)
    /\ inner' = Bindings(InnerCallKeywords)
    /\ raised' = TRUE
    /\ pc' = "done"
    /\ UNCHANGED <<solver, args, u, v, uprev, vprev, alpha, beta, K, cpt, err, loop,
                   numItermax, ret, log, warned, nanAt, nupd, nabs, absorbed, good,
                   measured, first>>

NextEpsilonScaling == epsilon_scaling_call

SpecEpsilonScaling == InitEpsilonScaling /\ [][NextEpsilonScaling]_vars


(***************************************************************************)
(* barycenter                                                              *)
(*                                                                         *)
(* The loop of barycenter is modelled with its control flow and            *)
(* bookkeeping (cpt, err, log, what is returned).  The arrays are held by  *)
(* provenance: [of |-> name, iter |-> n] is the value the statement        *)
(* assigning `name` computed in iteration n (n = 0: before the loop).  An  *)
(* error measurement yields any value a sum of standard deviations can:    *)
(* a nonnegative number, inf or NaN.                                       *)
(***************************************************************************)
MaxUnmixIter == 3      \* largest numItermax tried with unmix (it logs every iteration)

MeasuredErrs == {Zero, <<1, 32>>, One, Inf, NaN}
At(name, n) == [of |-> name, iter |-> n]

\* the while condition without the iteration cap
LoopCond_nocap == Gt(err, args.stopThr)

\* the while condition of barycenter
LoopCond == Gt(err, args.stopThr) /\ cpt < numItermax

\* the error measured on the iterations counted from 0 instead
BarycenterMeasures_from0(c) == c % 10 = 0

\* the error is measured on these iterations (cpt already incremented)
BarycenterMeasures(c) == c % 10 = 1

\* weight vectors: absent, one weight per column of A, too few, too many
GoodWeights == {None, <<Quarter, ThreeQuarters>>}
BadWeights == {<<One>>, <<Half, Quarter, Quarter>>}

\* weights after "if weights is None: weights = np.ones(A.shape[1])/A.shape[1]"
weights == IF args.weights = None THEN ones_over_n ELSE args.weights

\* a call barycenter(A, M, reg, weights, numItermax, stopThr, log=True), A with
\* as many columns as Idx has elements
BarycenterCall(ws) ==
    /\ solver = "barycenter"
    /\ args \in [weights : ws, numItermax : NumItermaxs, stopThr : StopThrs]
    /\ numItermax = args.numItermax
    /\ K = None /\ u = None
    /\ v = None /\ uprev = None /\ vprev = None /\ alpha = None /\ beta = None
    /\ cpt = 0 /\ err = One /\ loop = None
    /\ log = None
    /\ ret = None /\ pc = "call" /\ first = None
    /\ FreshHistory

\* calls that respect the precondition on weights
InitBarycenter == BarycenterCall(GoodWeights)

\* assert(len(weights) == A.shape[1]), made only when weights is given
barycenter_assert ==
    /\ solver = "barycenter" /\ pc = "call"
    /\ args.weights # None /\ Len(args.weights) # Cardinality(Idx)
    /\ raised' = TRUE
    /\ pc' = "done"
    /\ UNCHANGED <<solver, args, u, v, uprev, vprev, alpha, beta, K, cpt, err, loop,
                   numItermax, ret, log, warned, nanAt, nupd, nabs, absorbed, good,
                   measured, first, inner>>

\* the statements up to the while loop
barycenter_start ==
    /\ solver = "barycenter" /\ pc = "call"
    /\ args.weights = None \/ Len(args.weights) = Cardinality(Idx)
    /\ K' = At("UKv", 0) /\ u' = At("u", 0)
    /\ log' = [err |-> <<>>]
    /\ pc' = "loop"
    /\ UNCHANGED <<solver, args, v, uprev, vprev, alpha, beta, cpt, err, loop,
                   numItermax, ret, warned, raised, nanAt, nupd, nabs, absorbed, good,
                   measured, first, inner>>

\* one iteration of the loop body
barycenter_iter ==
    /\ solver = "barycenter" /\ pc = "loop"
    /\ LoopCond
    /\ cpt' = cpt + 1
    /\ K' = At("UKv", cpt + 1)
    /\ u' = At("u", cpt + 1)
    /\ IF BarycenterMeasures(cpt + 1)
       THEN \E e \in MeasuredErrs :
                /\ err' = e
                /\ log' = [log EXCEPT !.err = Append(@, e)]
                /\ measured' = At("UKv", cpt + 1)
       ELSE UNCHANGED <<err, log, measured>>
    /\ nupd' = nupd + 1
    /\ UNCHANGED <<solver, pc, args, v, uprev, vprev, alpha, beta, loop, numItermax, ret,
                   warned, raised, nanAt, nabs, absorbed, good, first, inner>>

\* the loop is left: log['niter'] = cpt, return geometricBar(weights, UKv)
barycenter_return ==
    /\ solver = "barycenter" /\ pc = "loop"
    /\ ~LoopCond
    /\ log' = [err |-> log.err, niter |-> cpt]
    /\ ret' = [of |-> "geometricBar", weights |-> weights, UKv |-> K]
    /\ pc' = "done"
    /\ UNCHANGED <<solver, args, u, v, uprev, vprev, alpha, beta, K, cpt, err, loop,
                   numItermax, warned, raised, nanAt, nupd, nabs, absorbed, good,
                   measured, first, inner>>

NextBarycenter == barycenter_start \/ barycenter_iter \/ barycenter_return

(***************************************************************************)
(* unmix, on the same exact arithmetic as sinkhorn.  np.linalg.norm is not *)
(* squared here, so err holds the square of the program's err and is       *)
(* compared with the square of stopThr (x > t iff x*x > t*t for x, t >= 0; *)
(* the initial err = 1 is its own square).  alpha is 0 or 1, where the     *)
(* geometric interpolation is rational.                                    *)
(***************************************************************************)
\* p / np.maximum(s, 1e-10): every positive number of the model exceeds 1e-10
ClampDiv(p, s) ==
    IF IsOVF(p) \/ IsOVF(s) THEN OVF
    ELSE IF IsNaN(s) THEN NaN
    ELSE IF s[2] > 0 /\ s[1] <= 0
         THEN (IF IsFinite(p) /\ p[1] # 0 THEN OVF ELSE p)
    ELSE Div(p, s)

\* projC(gamma, q): np.multiply(gamma, q/np.maximum(np.sum(gamma,axis=0),1e-10))
projC(gamma, q) ==
    LET f == [j \in Idx |-> ClampDiv(q[j], Add(gamma[1][j], gamma[2][j]))]
    IN  [i \in Idx |-> [j \in Idx |-> Mul(gamma[i][j], f[j])]]

\* projR(gamma, p): np.multiply(gamma.T, p/np.maximum(np.sum(gamma,axis=1),1e-10)).T
projR(gamma, p) ==
    LET f == [i \in Idx |-> ClampDiv(p[i], Add(gamma[i][1], gamma[i][2]))]
    IN  [i \in Idx |-> [j \in Idx |-> Mul(gamma[i][j], f[i])]]

\* np.exp(alpha*np.log(x) + (1-alpha)*np.log(y)) for alpha = 0 or 1: the factor
\* with weight 0 contributes 0*log, which is NaN unless it is finite and positive
GeoInterp(al, x, y) ==
    LET w0 == IF al = Zero THEN x ELSE y     \* the operand with weight 0
        w1 == IF al = Zero THEN y ELSE x     \* the operand with weight 1
    IN  IF IsOVF(w0) \/ IsOVF(w1) THEN OVF
        ELSE IF IsFinite(w0) /\ w0[1] > 0 THEN w1 ELSE NaN

\* a vector of length 1 broadcasts against one of length 2; other lengths do not
Broadcastable(x) == Len(x) \in {1, Cardinality(Idx)}
Broadcast(x) == IF Len(x) = 1 THEN <<x[1], x[1]>> ELSE x

UnmixThr == Mul(args.stopThr, args.stopThr)

\* the while condition (err and stopThr squared)
UnmixCond == Gt(err, UnmixThr) /\ cpt < numItermax

Identity == Mat(One, Zero, Zero, One)
\* dictionaries: the columns are distributions
Dictionaries == {Identity, Mat(One, Half, Zero, Half)}
UnmixStopThrs == {Zero, Quarter, One}
UnmixInputs(priors) ==
    [a : Marginals, D : Dictionaries, K : {Mat(One, Half, Half, One)},
     K0 : {Mat(One, Half, Half, One), Mat(One, One, Half, One)}, h0 : priors,
     alpha : {Zero, One}, numItermax : 0 .. MaxUnmixIter, stopThr : UnmixStopThrs]

\* unmix(a, D, M, M0, h0, reg, reg0, alpha, numItermax, stopThr, log=True) up to the
\* while loop; K holds the pair (K, K0), uprev holds old
UnmixStart ==
    /\ numItermax = args.numItermax
    /\ K = [K |-> args.K, K0 |-> args.K0]
    /\ uprev = args.h0
    /\ u = None /\ v = None /\ vprev = None /\ alpha = None /\ beta = None
    /\ cpt = 0 /\ err = One /\ loop = None
    /\ log = [err |-> <<>>]
    /\ ret = None /\ pc = "loop"
    /\ FreshHistory

\* calls whose h0 has one entry per column of D
InitUnmix ==
    /\ solver = "unmix"
    /\ args \in UnmixInputs({<<Half, Half>>, <<Quarter, ThreeQuarters>>})
    /\ UnmixStart
    /\ first = None

\* one iteration of the loop body
unmix_iter ==
    /\ solver = "unmix" /\ pc = "loop"
    /\ UnmixCond
    /\ Broadcastable(args.h0)
    /\ \E K1 \in {projC(K.K, args.a)} :
       \E K01 \in {projC(K.K0, Broadcast(args.h0))} :
       \E new \in {RowSums(K01)} :
       \E inv_new \in {Dot(args.D, new)} :
       \E other \in {RowSums(K1)} :
       \E delta \in {[i \in Idx |-> GeoInterp(args.alpha, other[i], inv_new[i])]} :
       \E K2 \in {projR(K1, delta)} :
       \E K02 \in {MatMul(Diag(DotT(args.D, VDiv(delta, inv_new))), K01)} :
       \E nerr \in {SqDist(RowSums(K02), Broadcast(uprev))} :
           /\ ~MatOVF(K2) /\ ~MatOVF(K02) /\ ~IsOVF(nerr) /\ ~VecOVF(new)
           /\ K' = [K |-> K2, K0 |-> K02]
           /\ err' = nerr
           /\ uprev' = new
           /\ log' = [log EXCEPT !.err = Append(@, nerr)]
           /\ good' = IF cpt = 0 THEN Broadcast(args.h0) ELSE RowSums(K.K0)
    /\ cpt' = cpt + 1
    /\ nupd' = nupd + 1
    /\ UNCHANGED <<solver, pc, args, u, v, vprev, alpha, beta, loop, numItermax, ret,
                   warned, raised, nanAt, nabs, absorbed, measured, first, inner>>

\* the loop is left: log['niter'] = cpt, return np.sum(K0, axis=1)
unmix_return ==
    /\ solver = "unmix" /\ pc = "loop"
    /\ ~UnmixCond
    /\ ~VecOVF(RowSums(K.K0))
    /\ log' = [err |-> log.err, niter |-> cpt]
    /\ ret' = RowSums(K.K0)
    /\ pc' = "done"
    /\ UNCHANGED <<solver, args, u, v, uprev, vprev, alpha, beta, K, cpt, err, loop,
                   numItermax, warned, raised, nanAt, nupd, nabs, absorbed, good,
                   measured, first, inner>>

NextUnmix == unmix_iter \/ unmix_return

\* a body whose h0 cannot be broadcast against the columns of K0: line 686 has
\* run when np.multiply in projC(K0, h0) raises ValueError
unmix_shape_error ==
    /\ solver = "unmix" /\ pc = "loop"
    /\ UnmixCond
    /\ ~Broadcastable(args.h0)
    /\ ~MatOVF(projC(K.K, args.a))
    /\ K' = [K EXCEPT !.K = projC(K.K, args.a)]
    /\ nupd' = nupd + 1
    /\ raised' = TRUE
    /\ pc' = "done"
    /\ UNCHANGED <<solver, args, u, v, uprev, vprev, alpha, beta, cpt, err, loop,
                   numItermax, ret, log, warned, nanAt, nabs, absorbed, good,
                   measured, first, inner>>

\* the caller unmixes another observation a with the same D, M, M0, h0, reg,
\* reg0, alpha; first keeps what the first call was given and returned
unmix_other_observation ==
    /\ solver = "unmix" /\ pc = "done" /\ first = None /\ ~raised
    /\ \E a2 \in Marginals \ {args.a} : args' = [args EXCEPT !.a = a2]
    /\ first' = <<[a |-> args.a, ret |-> ret, log |-> log]>>
    /\ K' = [K |-> args.K, K0 |-> args.K0]
    /\ uprev' = args.h0
    /\ cpt' = 0 /\ err' = One
    /\ log' = [err |-> <<>>]
    /\ ret' = None /\ pc' = "loop"
    /\ nupd' = 0 /\ good' = None
    /\ UNCHANGED <<solver, u, v, vprev, alpha, beta, loop, numItermax, warned, raised,
                   nanAt, nabs, absorbed, measured, inner>>

\* calls with an h0 of any length
InitUnmixCalls ==
    /\ solver = "unmix"
    /\ args \in UnmixInputs({<<Half, Half>>, <<Quarter, ThreeQuarters>>, <<One>>,
                             <<Half, Quarter, Quarter>>})
    /\ UnmixStart
    /\ first = None

NextUnmixCalls == NextUnmix \/ unmix_shape_error \/ unmix_other_observation
SpecUnmix == InitUnmixCalls /\ [][NextUnmixCalls]_vars

(***************************************************************************)
(* barycenter and unmix called with weight vectors of any length           *)
(***************************************************************************)
InitPreconditions == BarycenterCall(GoodWeights \cup BadWeights) \/ InitUnmixCalls
NextPreconditions ==
    NextBarycenter \/ barycenter_assert \/ NextUnmix \/ unmix_shape_error
SpecPreconditions == InitPreconditions /\ [][NextPreconditions]_vars

(***************************************************************************)
(* The three solvers whose loop is `while (err>stopThr and cpt<numItermax)`*)
(***************************************************************************)
InitLoops == InitSinkhorn \/ InitBarycenter \/ InitUnmix
NextLoops == NextSinkhorn \/ NextBarycenter \/ NextUnmix
SpecLoops == InitLoops /\ [][NextLoops]_vars

(***************************************************************************)
(* The two solvers of the transport plan                                   *)
(***************************************************************************)
InitSolvers == InitSinkhorn \/ InitStabilized
NextSolvers == NextSinkhorn \/ NextStabilized
SpecSolvers == InitSolvers /\ [][NextSolvers]_vars


(***************************************************************************)
(* Properties                                                              *)
(***************************************************************************)
Done(f) == solver = f /\ pc = "done"
\* the error of the finished loop is above the threshold (unmix holds both squared)
AboveThr == IF solver = "unmix" THEN Gt(err, UnmixThr) ELSE Gt(err, args.stopThr)
Max(x, y) == IF x >= y THEN x ELSE y

\* C1 (SpecSinkhorn): in sinkhorn, when the update of an iteration cpt >= 1, the
\* iterations that measure the error included, left a NaN in u or v, the call
\* has aborted the loop with the warning and returns the plan of uprev, vprev,
\* the iterate before that update; that plan holds no NaN when uprev, vprev
\* hold none; nothing is raised.
C1_NanRollsBack ==
    (Done("sinkhorn") /\ nanAt >= 1)
        => /\ warned /\ ~raised
           /\ ret = Plan(uprev, K, vprev)
           /\ (~HasNaN(uprev) /\ ~HasNaN(vprev)) => ~HasNaNM(ret)

\* C2 (SpecStabilized): in sinkhorn_stabilized, when the update of iteration
\* cpt >= 1 fails the machine-precision test, the returned plan and the kernel
\* rebuilt from the log's alpha, beta are the plan the solver represented at
\* the end of iteration cpt-1, whether or not iteration cpt began with an
\* absorption; at cpt = 0 nothing is restored (the failed iterate is kept).
C2_RollbackKeepsLastGood ==
    /\ (Done("sinkhorn_stabilized") /\ warned /\ cpt >= 1)
           => (ret = good /\ get_K(log.alpha, log.beta) = good)
    /\ (Done("sinkhorn_stabilized") /\ warned /\ cpt = 0) => StabFailure(K, u, v)

\* C3 (SpecEpsilonScaling): a call of sinkhorn_epsilon_scaling never ends
\* having made fewer than numItermin = 35 calls of the stabilized solver,
\* whatever numItermax, stopThr and print_period it was given.
C3_AtLeastNumIterminSteps ==
    Done("sinkhorn_epsilon_scaling") => nupd >= numItermin

\* C4 (SpecEpsilonScaling): the potentials are threaded through the outer loop:
\* the call returns a log whose alpha, beta and warmstart are the potentials
\* the last inner call returned, the first inner call having been seeded with
\* the caller's warmstart (zero vectors when none is given).
C4_WarmStartThreaded ==
    Done("sinkhorn_epsilon_scaling")
        => /\ ~raised /\ nupd >= 1
           /\ log.alpha = alpha /\ log.beta = beta
           /\ log.warmstart = <<alpha, beta>>

\* C5 (SpecEpsilonScaling): the outer loop halts after the step with counter c
\* exactly when (the last measured error <= stopThr and c > numItermin) or
\* c >= max(numItermax, numItermin); the call always ends normally, after at
\* most max(numItermax, numItermin) + 1 calls of the stabilized solver.
C5_OuterLoopHalts ==
    Done("sinkhorn_epsilon_scaling")
        => /\ ~raised /\ nupd >= 1
           /\ nupd <= Max(args.numItermax, numItermin) + 1
           /\ \/ Le(err, args.stopThr) /\ nupd - 1 > numItermin
              \/ nupd - 1 >= Max(args.numItermax, numItermin)

\* C6 (SpecStabilized): sinkhorn_stabilized performs at most numItermax
\* alternating updates (v = b/(K^T u), u = a/(K v)), for every numItermax >= 0.
C6_AtMostNumItermaxUpdates ==
    solver = "sinkhorn_stabilized" => nupd <= numItermax

\* C7 (SpecLoops): the loops of sinkhorn, barycenter and unmix execute their
\* body at most numItermax times, every execution advancing cpt by one (so the
\* loop terminates); a call whose loop ends at the cap with the error still
\* above stopThr returns its result with no exception and no warning.
C7_CapIsSilent ==
    solver \in {"sinkhorn", "barycenter", "unmix"}
        => /\ cpt = nupd /\ nupd <= numItermax
           /\ (pc = "done" /\ cpt = numItermax /\ AboveThr)
                  => ~warned /\ ~raised /\ ret # None
C7_CapReached ==
    /\ Done("sinkhorn") /\ cpt = numItermax /\ cpt > 10
    /\ Gt(err, args.stopThr) /\ Len(log.err) = 2 /\ ~HasNaNM(ret)

\* C8 (SpecStabilized): a run of sinkhorn_stabilized seeded with the warmstart
\* that a cold run on the same a, b, M, reg returned after stopping by
\* convergence returns the same plan as the cold run, meets the stop criterion
\* at its first error measurement and performs at most one absorption.
C8_WarmStartEquivalence ==
    (Done("sinkhorn_stabilized") /\ first # None)
        => /\ ret = first[1].ret
           /\ Len(log.err) = 1 /\ Le(err, args.stopThr)
           /\ nabs <= 1

\* C9 (SpecStabilized): the log that sinkhorn_stabilized returns holds the
\* consolidated potentials alpha + reg*log(u), beta + reg*log(v) of the final
\* (possibly rolled-back) u, v, its warmstart is that same pair, and the kernel
\* rebuilt from the pair equals the returned plan entry by entry.
C9_LogConsolidatesPotentials ==
    Done("sinkhorn_stabilized")
        => /\ log.alpha = AddRegLog(alpha, u) /\ log.beta = AddRegLog(beta, v)
           /\ log.warmstart = <<log.alpha, log.beta>>
           /\ get_K(log.alpha, log.beta) = ret
C9_ResidualFolded ==
    /\ Done("sinkhorn_stabilized") /\ nabs >= 1 /\ ~warned
    /\ log.alpha # alpha /\ log.beta # beta /\ alpha # zero_potential

\* C10 (SpecSolvers): when sinkhorn or sinkhorn_stabilized, called with
\* stopThr < 1, stops because the measured error is <= stopThr, the returned
\* plan is the plan the error was measured on: its squared column-sum deviation
\* from b is <= stopThr and its row sums equal a.
StoppedOnError == pc = "done" /\ ~warned /\ Le(err, args.stopThr) /\ Gt(One, args.stopThr)
C10_ReturnsMeasuredPlan ==
    (solver \in {"sinkhorn", "sinkhorn_stabilized"} /\ StoppedOnError)
        => /\ ret = measured
           /\ Le(SqDist(ColSums(ret), args.b), args.stopThr)
           /\ RowSums(ret) = args.a
C10_StoppedOnPositiveError ==
    /\ solver = "sinkhorn_stabilized" /\ StoppedOnError /\ first = None
    /\ err # Zero /\ cpt >= 1

\* C11 (SpecUnmix): with alpha = 0 and D the identity, the h returned by unmix
\* depends on the observation a: two calls that differ only in a, each running
\* the loop body at least once, do not return the same h.
C11_DependsOnObservation ==
    (Done("unmix") /\ first # None /\ args.alpha = Zero /\ args.D = Identity
        /\ Len(args.h0) = Cardinality(Idx) /\ cpt >= 1 /\ first[1].log.niter >= 1)
        => ret # first[1].ret

\* C12 (SpecPreconditions): a call of barycenter whose weights, or of unmix
\* whose h0, has not one entry per column of A, respectively of D, fails with
\* an exception before the loop body has executed any statement.
C12_MismatchFailsFirst ==
    /\ (Done("barycenter") /\ args.weights # None
            /\ Len(args.weights) # Cardinality(Idx))
           => raised /\ nupd = 0 /\ K = None
    /\ (Done("unmix") /\ Len(args.h0) # Cardinality(Idx))
           => raised /\ nupd = 0 /\ K = [K |-> args.K, K0 |-> args.K0]

\* C13 (SpecEpsilonScaling): sinkhorn_epsilon_scaling calls sinkhorn_stabilized
\* with numItermax = numInnerItermax, stopThr = 1e-9 and tau = 1e3, whatever
\* numItermax, stopThr and tau the caller gave: the call gives each of these
\* keywords exactly that value, and it is made (nothing is raised on it).
C13_InnerCallFixed ==
    Done("sinkhorn_epsilon_scaling")
        => /\ inner.numItermax = {args.numInnerItermax}
           /\ inner.stopThr = {<<1, 1000000000>>}
           /\ inner.tau = {<<1000, 1>>}
           /\ ~raised

\* C14 (SpecSolvers): for nonnegative a, b that sum to 1 and a symmetric
\* nonnegative M (so a symmetric kernel), every entry of the plan returned by
\* sinkhorn and by sinkhorn_stabilized is >= 0: never negative, never NaN,
\* whichever way the loop ended.
Symmetric(P) == P[1][2] = P[2][1]
C14_PlanNonnegative ==
    (solver \in {"sinkhorn", "sinkhorn_stabilized"} /\ pc = "done"
        /\ Symmetric(args.K0))
        => \A i, j \in Idx : ~IsNaN(ret[i][j]) /\ ret[i][j][1] >= 0

\* C15 (SpecLoops): barycenter measures the error exactly at the iterations
\* 1, 11, 21, ... (counted from 1); an iteration whose measurement is <=
\* stopThr is the last one, and every earlier measurement was above stopThr;
\* the returned barycenter is the geometric mean, weighted by weights, of the
\* columns of the UKv of the last executed iteration, and log['niter'] is the
\* number of iterations executed.
C15_MeasuresAndStops ==
    (solver = "barycenter" /\ pc \in {"loop", "done"})
        => /\ Len(log.err) = (nupd + 9) \div 10
           /\ measured # None
                  => measured = At("UKv", 10 * (Len(log.err) - 1) + 1)
           /\ (Len(log.err) >= 1 /\ Le(err, args.stopThr))
                  => measured = At("UKv", nupd)
           /\ \A k \in 1 .. Len(log.err) - 1 : Gt(log.err[k], args.stopThr)
           /\ pc = "done"
                  => /\ ~raised /\ log.niter = nupd
                     /\ nupd >= 1
                            => ret = [of |-> "geometricBar", weights |-> weights,
                                      UKv |-> At("UKv", nupd)]
C15_StoppedAtSecondMeasure ==
    /\ Done("barycenter") /\ nupd = 11 /\ numItermax > nupd
    /\ Len(log.err) = 2 /\ Le(err, args.stopThr) /\ args.weights # None

\* C16 (SpecStabilized): in every execution of the loop body of
\* sinkhorn_stabilized (tau >= 1/na, 1/nb), the alternating update is made
\* with K = exp(-(M - alpha_i - beta_j)/reg) for the current alpha, beta and
\* with u, v whose entries are all <= tau in absolute value; the body began
\* with an absorption (u, v folded into alpha, beta and reset to 1/na, 1/nb)
\* exactly when an entry of the u or v it was entered with exceeded tau.
AbsVal(x) == <<Abs(x[1]), x[2]>>
Bounded(x, t) == \A i \in Idx : Le(AbsVal(x[i]), t)
C16_BodyStep ==
    (solver = "sinkhorn_stabilized" /\ nupd' = nupd + 1)
        => /\ K' = get_K(alpha', beta')
           /\ Bounded(uprev', args.tau) /\ Bounded(vprev', args.tau)
           /\ absorbed' <=> ~(Bounded(u, args.tau) /\ Bounded(v, args.tau))
           /\ absorbed' => (uprev' = ones_over_n /\ vprev' = ones_over_n
                            /\ nabs' = nabs + 1)
           /\ ~absorbed' => (uprev' = u /\ vprev' = v /\ alpha' = alpha
                             /\ beta' = beta /\ nabs' = nabs)
C16_UpdatesWithinTau == [][C16_BodyStep]_vars
C16_SecondBodyAbsorbs ==
    /\ solver = "sinkhorn_stabilized" /\ absorbed /\ nabs = 1 /\ nupd = 2
    /\ ~warned /\ first = None /\ Bounded(u, args.tau)

\* C17 (SpecUnmix): in unmix the error of an iteration is the norm of the
\* difference between the row sums of K0 at the end of that iteration and the
\* row sums of K0 at the end of the iteration before (h0 for the first
\* iteration); one error is recorded per iteration, so len(log['err']) is
\* log['niter'].  (err holds the square of the norm.)
C17_ErrorOfSuccessiveRowSums ==
    (solver = "unmix" /\ ~raised /\ nupd >= 1)
        => /\ err = SqDist(RowSums(K.K0), good)
           /\ Len(log.err) = nupd
           /\ pc = "done" => log.niter = Len(log.err)

\* C18 (SpecEpsilonScaling): a call of sinkhorn_epsilon_scaling ends by
\* returning a plan G, and when it halted on its error criterion (outer error
\* <= stopThr and cpt > numItermin) G is the plan of the outer step on which
\* that error was measured, so the squared deviation of its column sums from b
\* plus that of its row sums from a is <= stopThr, for every print_period.
C18_HaltsOnMeasuredPlan ==
    Done("sinkhorn_epsilon_scaling")
        => /\ ~raised /\ ret # None
           /\ (Le(err, args.stopThr) /\ cpt > numItermin)
                  => /\ ret = measured
                     /\ Le(Add(SqDist(ColSums(ret), args.b),
                               SqDist(RowSums(ret), args.a)), args.stopThr)

====
